---- MODULE Spec2Model ----
(***************************************************************************)
(* The project / contributor / issue / comment API of the support app and  *)
(* its permission classes, as a state machine over the database tables.    *)
(* One action per request handler of the four ViewSets.  Every handler    *)
(* has a ...Status operator, the status code it answers in the current     *)
(* state, got by running the request through the framework's fixed order:  *)
(* authentication, has_permission of every permission class, get_object    *)
(* (404, then has_object_permission), serializer validation, and then      *)
(* perform_create / perform_update / perform_destroy.  The action writes   *)
(* the tables when that status is a success and only answers otherwise.    *)
(***************************************************************************)
EXTENDS Integers, FiniteSets, TLC

\* ------------------------------------------------------------------ bounds
MaxProjects == 2
MaxContributors == 3
MaxIssues == 2
MaxComments == 1
MaxAccounts == 2

\* ------------------------------------------------------------ value sets
Users == {"alice", "bob"}
\* The server's workers, each serving one request at a time
Workers == {"w1", "w2"}
Anonymous == "anonymous"
Requesters == Users \cup {Anonymous}

\* A reference that is left out of a payload (or is falsy), and a user id
\* that resolves to no row.
NoId == 0
Absent == "absent"
GhostUser == "ghost"

ProjectIds == 1..MaxProjects
ContributorIds == 1..MaxContributors
IssueIds == 1..MaxIssues
CommentIds == 1..MaxComments

Titles == {"t1", "t2"}

\* What a /users/ payload carries: a field is Absent when left out, the age
\* NoAge when left out
AccountIds == 1..MaxAccounts
Usernames == {"u1", "u2"}
Emails == {"e1", "e2"}
Passwords == {"pw1", "pw2"}
Ages == {15, 16, 17}
NoAge == -1

\* What a payload may carry in a reference field
PayloadUsers == Users \cup {Absent, GhostUser}
PayloadProjects == ProjectIds \cup {NoId}
PayloadIssues == IssueIds \cup {NoId}

SAFE_METHODS == {"GET", "HEAD", "OPTIONS"}

VARIABLES
    projects,         \* Project table: id -> [author, title]
    nextProject,      \* next Project primary key
    contributors,     \* Contributor table: id -> [user, project]
    nextContributor,  \* next Contributor primary key
    issues,           \* Issue table: id -> [project, author, assignee]
    nextIssue,        \* next Issue primary key
    comments,         \* Comment table: id -> [issue, author]
    nextComment,      \* next fresh Comment identifier
    inflight,         \* project-create requests between their two writes
    pending,          \* contributor-create requests checked and not yet saved
    accounts,         \* User table: id -> [username, password, age]
    nextAccount,      \* next User primary key
    last              \* the last request answered and its response

vars == <<projects, nextProject, contributors, nextContributor, issues,
          nextIssue, comments, nextComment, inflight, pending, accounts,
          nextAccount, last>>

tables == <<projects, contributors, issues, comments>>

\* ------------------------------------------------------------- responses
Response(op, user, status) == [op |-> op, user |-> user, status |-> status]

\* No request is being answered: the worker is free to take the next one.
NoResponse == Response("none", Anonymous, 0)

\* ------------------------------------------------------- table helpers
Insert(table, id, row) ==
    [x \in DOMAIN table \cup {id} |-> IF x = id THEN row ELSE table[x]]

Restrict(table, keep) == [x \in keep |-> table[x]]

\* Contributor.objects.filter(project=..., user=...).exists()
ContributorExists(project, user) ==
    \E c \in DOMAIN contributors :
        contributors[c].project = project /\ contributors[c].user = user

\* The same query with one row left out (the validator's exclude of the
\* instance being updated).
ContributorExistsExcept(project, user, instance) ==
    \E c \in DOMAIN contributors \ {instance} :
        contributors[c].project = project /\ contributors[c].user = user

\* -------------------------------------------------------- permissions
IsAuthenticated(user) == user \in Users

\* The object-level gate asking only for a logged-in user
IsAuthorOrReadOnlyAnyUser(method, author, user) ==
    IF method \in SAFE_METHODS THEN TRUE ELSE IsAuthenticated(user)

\* IsAuthorOrReadOnly.has_object_permission
IsAuthorOrReadOnly(method, author, user) ==
    IF method \in SAFE_METHODS THEN TRUE ELSE author = user

\* project.author == user or a Contributor row (project, user) exists
AuthorOrContributor(project, user) ==
    projects[project].author = user \/ ContributorExists(project, user)

\* The gate with the membership test left out: any project that resolves
IsContributorOrAuthorAnyProject(method, basename, data, user) ==
    IF method = "POST"
    THEN LET project_id == IF data.project # NoId THEN data.project ELSE data.issue
         IN  IF project_id = NoId THEN FALSE
             ELSE IF basename = "comment"
                  THEN project_id \in DOMAIN issues
                  ELSE project_id \in DOMAIN projects
    ELSE TRUE

\* IsContributorOrAuthor.has_permission; data holds the payload's "project"
\* and "issue" fields (NoId when left out).
IsContributorOrAuthor(method, basename, data, user) ==
    IF method = "POST"
    THEN LET project_id == IF data.project # NoId THEN data.project ELSE data.issue
         IN  IF project_id = NoId THEN FALSE
             ELSE IF basename = "comment"
                  THEN IF project_id \notin DOMAIN issues THEN FALSE
                       ELSE AuthorOrContributor(issues[project_id].project, user)
                  ELSE IF project_id \notin DOMAIN projects THEN FALSE
                       ELSE AuthorOrContributor(project_id, user)
    ELSE TRUE

\* ------------------------------------------------------- author fields
\* The "author" a client puts in a payload, read by a serializer on which
\* author is writable
ValidatedAuthorWritable(supplied) ==
    IF supplied \in Users THEN supplied ELSE Absent

\* Meta.read_only_fields = ["author", "created_time"] of ProjectSerializer,
\* IssueSerializer and CommentSerializer: the payload's "author" is not
\* taken into validated_data
ValidatedAuthor(supplied) == Absent

\* serializer.save(author=self.request.user): the keyword overrides
\* whatever validated_data holds
SavedAuthor(requester, supplied) == requester

\* serializer.save() of an update: the stored author unless validated_data
\* holds one
UpdatedAuthor(stored, supplied) ==
    IF ValidatedAuthor(supplied) = Absent THEN stored
    ELSE ValidatedAuthor(supplied)

\* ---------------------------------------------------------------- Init
Init ==
    /\ projects = << >>
    /\ nextProject = 1
    /\ contributors = << >>
    /\ nextContributor = 1
    /\ issues = << >>
    /\ nextIssue = 1
    /\ comments = << >>
    /\ nextComment = 1
    /\ inflight = {}
    /\ pending = {}
    /\ accounts = << >>
    /\ nextAccount = 1
    /\ last = NoResponse

\* A request that is answered without touching the tables.
Answer(op, user, status) ==
    /\ last' = Response(op, user, status)
    /\ UNCHANGED <<projects, nextProject, contributors, nextContributor,
                   issues, nextIssue, comments, nextComment, inflight,
                   pending, accounts, nextAccount>>

\* ------------------------------------------------------ ProjectViewSet
\* POST /projects/ : permission_classes = [IsAuthenticated]
ProjectCreateStatus(user) ==
    IF ~IsAuthenticated(user) THEN 401 ELSE 201

\* serializer.save(author=self.request.user)
SavedProject(user, title) ==
    Insert(projects, nextProject, [author |-> user, title |-> title])

\* perform_create without its second write
AuthorContributorSkipped(user, project) == contributors

\* Contributor.objects.create(user=self.request.user, project=project)
AuthorContributor(user, project) ==
    Insert(contributors, nextContributor, [user |-> user, project |-> project])

\* ProjectViewSet.perform_create, both writes
ProjectCreate(user, title) ==
    IF ProjectCreateStatus(user) # 201
    THEN Answer("project_create", user, ProjectCreateStatus(user))
    ELSE /\ nextProject <= MaxProjects
         /\ nextContributor <= MaxContributors
         /\ \E a \in PayloadUsers :
                projects' = SavedProject(SavedAuthor(user, a), title)
         /\ nextProject' = nextProject + 1
         /\ contributors' = AuthorContributor(user, nextProject)
         /\ nextContributor' = nextContributor + 1
         /\ last' = Response("project_create", user, 201)
         /\ UNCHANGED <<issues, nextIssue, comments, nextComment, inflight,
                        pending, accounts, nextAccount>>

\* The two writes of perform_create as two steps: the save of the project
\* (committed on its own), then the insertion of the author's Contributor row.
ProjectCreateSave(user, title) ==
    IF ProjectCreateStatus(user) # 201
    THEN Answer("project_create", user, ProjectCreateStatus(user))
    ELSE /\ nextProject <= MaxProjects
         /\ nextContributor + Cardinality(inflight) <= MaxContributors
         /\ \E a \in PayloadUsers :
                projects' = SavedProject(SavedAuthor(user, a), title)
         /\ nextProject' = nextProject + 1
         /\ inflight' = inflight \cup {[user |-> user, project |-> nextProject]}
         /\ UNCHANGED <<contributors, nextContributor, issues, nextIssue,
                        comments, nextComment, last,
                        pending, accounts, nextAccount>>

\* The insert fails (IntegrityError, answered 500) when the project row is
\* gone or the (user, project) pair is already there.
ProjectCreateContributor(req) ==
    /\ req \in inflight
    /\ nextContributor <= MaxContributors
    /\ inflight' = inflight \ {req}
    /\ IF req.project \notin DOMAIN projects \/ ContributorExists(req.project, req.user)
       THEN /\ last' = Response("project_create", req.user, 500)
            /\ UNCHANGED <<projects, nextProject, contributors, nextContributor,
                           issues, nextIssue, comments, nextComment,
                           pending, accounts, nextAccount>>
       ELSE /\ contributors' = AuthorContributor(req.user, req.project)
            /\ nextContributor' = nextContributor + 1
            /\ last' = Response("project_create", req.user, 201)
            /\ UNCHANGED <<projects, nextProject, issues, nextIssue,
                           comments, nextComment,
                           pending, accounts, nextAccount>>

\* PUT / PATCH /projects/<id>/ : permission_classes = [IsAuthenticated];
\* ProjectSerializer requires the title unless the update is partial
ProjectUpdateStatus(user, method, id, title) ==
    IF ~IsAuthenticated(user) THEN 401
    ELSE IF id \notin DOMAIN projects THEN 404
    ELSE IF method = "PUT" /\ title = Absent THEN 400
    ELSE 200

ProjectUpdate(user, method, id, title) ==
    IF ProjectUpdateStatus(user, method, id, title) # 200
    THEN Answer("project_update", user,
                ProjectUpdateStatus(user, method, id, title))
    ELSE /\ \E a \in PayloadUsers :
                projects' = [projects EXCEPT
                    ![id].title = IF title = Absent THEN @ ELSE title,
                    ![id].author = UpdatedAuthor(@, a)]
         /\ last' = Response("project_update", user, 200)
         /\ UNCHANGED <<nextProject, contributors, nextContributor, issues,
                        nextIssue, comments, nextComment, inflight,
                        pending, accounts, nextAccount>>

\* A project delete that takes no issue with it
IssuesOfProjectNone(id) == {}

\* on_delete=CASCADE from Contributor.project, Issue.project, Comment.issue
IssuesOfProject(id) == {i \in DOMAIN issues : issues[i].project = id}

CommentsOfIssues(ids) == {c \in DOMAIN comments : comments[c].issue \in ids}

\* DELETE /projects/<id>/ : permission_classes = [IsAuthenticated]
ProjectDestroyStatus(user, id) ==
    IF ~IsAuthenticated(user) THEN 401
    ELSE IF id \notin DOMAIN projects THEN 404
    ELSE 204

ProjectDestroy(user, id) ==
    IF ProjectDestroyStatus(user, id) # 204
    THEN Answer("project_destroy", user, ProjectDestroyStatus(user, id))
    ELSE /\ projects' = Restrict(projects, DOMAIN projects \ {id})
         /\ contributors' = Restrict(contributors,
                {c \in DOMAIN contributors : contributors[c].project # id})
         /\ issues' = Restrict(issues, DOMAIN issues \ IssuesOfProject(id))
         /\ comments' = Restrict(comments,
                DOMAIN comments \ CommentsOfIssues(IssuesOfProject(id)))
         /\ last' = Response("project_destroy", user, 204)
         /\ UNCHANGED <<nextProject, nextContributor, nextIssue, nextComment,
                        inflight,
                        pending, accounts, nextAccount>>

\* GET /projects/<id>/
ProjectRetrieveStatus(user, id) ==
    IF ~IsAuthenticated(user) THEN 401
    ELSE IF id \notin DOMAIN projects THEN 404
    ELSE 200

ProjectRetrieve(user, id) ==
    Answer("project_retrieve", user, ProjectRetrieveStatus(user, id))

\* GET /projects/
ProjectListStatus(user) ==
    IF ~IsAuthenticated(user) THEN 401 ELSE 200

ProjectList(user) == Answer("project_list", user, ProjectListStatus(user))

\* -------------------------------------------------- ContributorViewSet
\* is_valid with the related fields alone: no unique-together validator and
\* no validate()
ContributorSerializerFieldsOnly(partial, instance, user, project) ==
    IF ~partial /\ (user = Absent \/ project = NoId) THEN 400
    ELSE IF user # Absent /\ user \notin Users THEN 400
    ELSE IF project # NoId /\ project \notin DOMAIN projects THEN 400
    ELSE IF user = Absent \/ project = NoId THEN 500
    ELSE 0

\* ContributorSerializer.is_valid on a payload's "user" and "project": the
\* two related fields (required unless partial, and resolving to a row), the
\* UniqueTogetherValidator of Meta.unique_together (missing fields taken
\* from the instance, the instance itself left out), then validate().
\* The outcome is the status answered: 0 when the payload is valid.
ContributorSerializerStatus(partial, instance, user, project) ==
    IF ~partial /\ (user = Absent \/ project = NoId) THEN 400
    ELSE IF user # Absent /\ user \notin Users THEN 400
    ELSE IF project # NoId /\ project \notin DOMAIN projects THEN 400
    ELSE LET u == IF user = Absent THEN contributors[instance].user ELSE user
             p == IF project = NoId THEN contributors[instance].project ELSE project
         IN  IF ContributorExistsExcept(p, u, instance) THEN 400
             \* validate(): data["user"], data["project"] of a partial payload
             ELSE IF user = Absent \/ project = NoId THEN 500
             ELSE IF ContributorExists(project, user) THEN 400
             ELSE 0

\* ContributorViewSet.perform_create, run on a payload the serializer took:
\* the status answered, 201 when the row is saved.
ContributorPerformCreateStatus(requester, user, project) ==
    IF project = NoId \/ user = Absent THEN 400
    ELSE IF project \notin DOMAIN projects THEN 400
    ELSE IF user \notin Users THEN 400
    ELSE IF projects[project].author # requester THEN 403
    ELSE IF ContributorExists(project, user) THEN 400
    ELSE 201

\* POST /contributors/ : permission_classes = [IsAuthenticated]
ContributorCreateStatus(requester, user, project) ==
    IF ~IsAuthenticated(requester) THEN 401
    ELSE IF ContributorSerializerStatus(FALSE, NoId, user, project) # 0
    THEN ContributorSerializerStatus(FALSE, NoId, user, project)
    ELSE ContributorPerformCreateStatus(requester, user, project)

ContributorCreate(requester, user, project) ==
    IF ContributorCreateStatus(requester, user, project) # 201
    THEN Answer("contributor_create", requester,
                ContributorCreateStatus(requester, user, project))
    ELSE /\ nextContributor <= MaxContributors
         /\ contributors' = Insert(contributors, nextContributor,
                                   [user |-> user, project |-> project])
         /\ nextContributor' = nextContributor + 1
         /\ last' = Response("contributor_create", requester, 201)
         /\ UNCHANGED <<projects, nextProject, issues, nextIssue,
                        comments, nextComment, inflight,
                        pending, accounts, nextAccount>>

\* POST /contributors/ as two steps, so that two requests can interleave:
\* first is_valid and perform_create's checks, all reading the tables ...
ContributorCreateCheck(worker, requester, user, project) ==
    /\ \A req \in pending : req.worker # worker
    /\ IF ContributorCreateStatus(requester, user, project) # 201
       THEN Answer("contributor_create", requester,
                   ContributorCreateStatus(requester, user, project))
       ELSE /\ pending' = pending \cup
                    {[worker |-> worker, requester |-> requester,
                      user |-> user, project |-> project]}
            /\ UNCHANGED <<projects, nextProject, contributors, nextContributor,
                           issues, nextIssue, comments, nextComment, inflight,
                           accounts, nextAccount, last>>

\* ... then serializer.save(project=project, user=user): the INSERT, which
\* the unique_together constraint (or the project's foreign key) refuses
\* with an IntegrityError that perform_create does not catch, answered 500.
ContributorCreateSave(req) ==
    /\ req \in pending
    /\ pending' = pending \ {req}
    /\ IF \/ req.project \notin DOMAIN projects
          \/ ContributorExists(req.project, req.user)
       THEN /\ last' = Response("contributor_create", req.requester, 500)
            /\ UNCHANGED <<projects, nextProject, contributors, nextContributor,
                           issues, nextIssue, comments, nextComment, inflight,
                           accounts, nextAccount>>
       ELSE /\ nextContributor <= MaxContributors
            /\ contributors' = Insert(contributors, nextContributor,
                    [user |-> req.user, project |-> req.project])
            /\ nextContributor' = nextContributor + 1
            /\ last' = Response("contributor_create", req.requester, 201)
            /\ UNCHANGED <<projects, nextProject, issues, nextIssue, comments,
                           nextComment, inflight, accounts, nextAccount>>

\* PUT / PATCH /contributors/<id>/ : the inherited update (the ViewSet has
\* no perform_update and no object-level permission)
ContributorUpdateStatus(requester, method, id, user, project) ==
    IF ~IsAuthenticated(requester) THEN 401
    ELSE IF id \notin DOMAIN contributors THEN 404
    ELSE IF ContributorSerializerStatus(method = "PATCH", id, user, project) # 0
    THEN ContributorSerializerStatus(method = "PATCH", id, user, project)
    ELSE 200

ContributorUpdate(requester, method, id, user, project) ==
    IF ContributorUpdateStatus(requester, method, id, user, project) # 200
    THEN Answer("contributor_update", requester,
                ContributorUpdateStatus(requester, method, id, user, project))
    ELSE /\ contributors' = [contributors EXCEPT
                                ![id] = [user |-> user, project |-> project]]
         /\ last' = Response("contributor_update", requester, 200)
         /\ UNCHANGED <<projects, nextProject, nextContributor, issues,
                        nextIssue, comments, nextComment, inflight,
                        pending, accounts, nextAccount>>

\* perform_destroy with its guard turned round
ContributorPerformDestroyInverted(id) ==
    IF projects[contributors[id].project].author # contributors[id].user
    THEN 403 ELSE 204

\* ContributorViewSet.perform_destroy: the author's own row is kept
ContributorPerformDestroyStatus(id) ==
    IF projects[contributors[id].project].author = contributors[id].user
    THEN 403 ELSE 204

\* DELETE /contributors/<id>/ : permission_classes = [IsAuthenticated]
ContributorDestroyStatus(requester, id) ==
    IF ~IsAuthenticated(requester) THEN 401
    ELSE IF id \notin DOMAIN contributors THEN 404
    ELSE ContributorPerformDestroyStatus(id)

ContributorDestroy(requester, id) ==
    IF ContributorDestroyStatus(requester, id) # 204
    THEN Answer("contributor_destroy", requester,
                ContributorDestroyStatus(requester, id))
    ELSE /\ contributors' = Restrict(contributors, DOMAIN contributors \ {id})
         /\ last' = Response("contributor_destroy", requester, 204)
         /\ UNCHANGED <<projects, nextProject, nextContributor, issues,
                        nextIssue, comments, nextComment, inflight,
                        pending, accounts, nextAccount>>

\* --------------------------------------------------------- IssueViewSet
\* IssueSerializer.is_valid on a payload's "project" and "assignee" (both
\* writable; required unless partial, and resolving to a row).
IssueSerializerValid(partial, project, assignee) ==
    /\ partial \/ (project # NoId /\ assignee # Absent)
    /\ project # NoId => project \in DOMAIN projects
    /\ assignee # Absent => assignee \in Users

\* The check shared by perform_create and perform_update:
\* project.author == assignee or the assignee is a contributor of project
AssigneeEligible(project, assignee) ==
    projects[project].author = assignee \/ ContributorExists(project, assignee)

\* IssueViewSet.perform_create
IssuePerformCreateStatus(project, assignee) ==
    IF ~AssigneeEligible(project, assignee) THEN 400 ELSE 201

\* POST /issues/ : permission_classes = [IsAuthenticated, IsAuthorOrReadOnly,
\* IsContributorOrAuthor]; data holds the payload's "project", "issue" and
\* "assignee"
IssueCreateStatus(requester, data) ==
    IF ~IsAuthenticated(requester) THEN 401
    ELSE IF ~IsContributorOrAuthor("POST", "issue", data, requester) THEN 403
    ELSE IF ~IssueSerializerValid(FALSE, data.project, data.assignee) THEN 400
    ELSE IssuePerformCreateStatus(data.project, data.assignee)

IssueCreate(requester, data) ==
    IF IssueCreateStatus(requester, data) # 201
    THEN Answer("issue_create", requester, IssueCreateStatus(requester, data))
    ELSE /\ nextIssue <= MaxIssues
         /\ \E a \in PayloadUsers :
                issues' = Insert(issues, nextIssue,
                    [project |-> data.project,
                     author |-> SavedAuthor(requester, a),
                     assignee |-> data.assignee])
         /\ nextIssue' = nextIssue + 1
         /\ last' = Response("issue_create", requester, 201)
         /\ UNCHANGED <<projects, nextProject, contributors, nextContributor,
                        comments, nextComment, inflight,
                        pending, accounts, nextAccount>>

\* serializer.save() of an update: the incoming value where the payload has
\* one, the instance's otherwise
UpdatedIssue(id, project, assignee) ==
    [issues[id] EXCEPT
        !.project = IF project = NoId THEN @ ELSE project,
        !.assignee = IF assignee = Absent THEN @ ELSE assignee]

\* perform_update testing the stored project and assignee, not the incoming
IssuePerformUpdateStoredOnly(id, project, assignee) ==
    IF ~AssigneeEligible(issues[id].project, issues[id].assignee)
    THEN 400 ELSE 200

\* IssueViewSet.perform_update
IssuePerformUpdateStatus(id, project, assignee) ==
    IF ~AssigneeEligible(
            IF project = NoId THEN issues[id].project ELSE project,
            IF assignee = Absent THEN issues[id].assignee ELSE assignee)
    THEN 400 ELSE 200

\* PUT / PATCH /issues/<id>/
IssueUpdateStatus(requester, method, id, project, assignee) ==
    IF ~IsAuthenticated(requester) THEN 401
    ELSE IF ~IsContributorOrAuthor(method, "issue",
                [project |-> project, issue |-> NoId], requester) THEN 403
    ELSE IF id \notin DOMAIN issues THEN 404
    ELSE IF ~IsAuthorOrReadOnly(method, issues[id].author, requester) THEN 403
    ELSE IF ~IssueSerializerValid(method = "PATCH", project, assignee) THEN 400
    ELSE IssuePerformUpdateStatus(id, project, assignee)

IssueUpdate(requester, method, id, project, assignee) ==
    IF IssueUpdateStatus(requester, method, id, project, assignee) # 200
    THEN Answer("issue_update", requester,
                IssueUpdateStatus(requester, method, id, project, assignee))
    ELSE /\ \E a \in PayloadUsers :
                issues' = [issues EXCEPT
                    ![id] = [UpdatedIssue(id, project, assignee) EXCEPT
                                !.author = UpdatedAuthor(@, a)]]
         /\ last' = Response("issue_update", requester, 200)
         /\ UNCHANGED <<projects, nextProject, contributors, nextContributor,
                        nextIssue, comments, nextComment, inflight,
                        pending, accounts, nextAccount>>

\* DELETE /issues/<id>/
IssueDestroyStatus(requester, id) ==
    IF ~IsAuthenticated(requester) THEN 401
    ELSE IF id \notin DOMAIN issues THEN 404
    ELSE IF ~IsAuthorOrReadOnly("DELETE", issues[id].author, requester) THEN 403
    ELSE 204

IssueDestroy(requester, id) ==
    IF IssueDestroyStatus(requester, id) # 204
    THEN Answer("issue_destroy", requester, IssueDestroyStatus(requester, id))
    ELSE /\ issues' = Restrict(issues, DOMAIN issues \ {id})
         /\ comments' = Restrict(comments, DOMAIN comments \ CommentsOfIssues({id}))
         /\ last' = Response("issue_destroy", requester, 204)
         /\ UNCHANGED <<projects, nextProject, contributors, nextContributor,
                        nextIssue, nextComment, inflight,
                        pending, accounts, nextAccount>>

\* GET /issues/<id>/
IssueRetrieveStatus(requester, id) ==
    IF ~IsAuthenticated(requester) THEN 401
    ELSE IF id \notin DOMAIN issues THEN 404
    ELSE IF ~IsAuthorOrReadOnly("GET", issues[id].author, requester) THEN 403
    ELSE 200

IssueRetrieve(requester, id) ==
    Answer("issue_retrieve", requester, IssueRetrieveStatus(requester, id))

\* GET /issues/ : has_permission of the three classes, no object involved
IssueListStatus(requester) ==
    IF ~IsAuthenticated(requester) THEN 401
    ELSE IF ~IsContributorOrAuthor("GET", "issue",
                [project |-> NoId, issue |-> NoId], requester) THEN 403
    ELSE 200

IssueList(requester) ==
    Answer("issue_list", requester, IssueListStatus(requester))

\* ------------------------------------------------------- CommentViewSet
\* CommentSerializer.is_valid on a payload's "issue" (writable; required
\* unless partial, and resolving to a row)
CommentSerializerValid(partial, issue) ==
    /\ partial \/ issue # NoId
    /\ issue # NoId => issue \in DOMAIN issues

\* POST /comments/ : permission_classes = [IsAuthenticated, IsAuthorOrReadOnly,
\* IsContributorOrAuthor]; data holds the payload's "project" and "issue"
CommentCreateStatus(requester, data) ==
    IF ~IsAuthenticated(requester) THEN 401
    ELSE IF ~IsContributorOrAuthor("POST", "comment", data, requester) THEN 403
    ELSE IF ~CommentSerializerValid(FALSE, data.issue) THEN 400
    ELSE 201

\* CommentViewSet.perform_create
CommentCreate(requester, data) ==
    IF CommentCreateStatus(requester, data) # 201
    THEN Answer("comment_create", requester, CommentCreateStatus(requester, data))
    ELSE /\ nextComment <= MaxComments
         /\ \E a \in PayloadUsers :
                comments' = Insert(comments, nextComment,
                    [issue |-> data.issue, author |-> SavedAuthor(requester, a)])
         /\ nextComment' = nextComment + 1
         /\ last' = Response("comment_create", requester, 201)
         /\ UNCHANGED <<projects, nextProject, contributors, nextContributor,
                        issues, nextIssue, inflight,
                        pending, accounts, nextAccount>>

\* PUT / PATCH /comments/<id>/
CommentUpdateStatus(requester, method, id, issue) ==
    IF ~IsAuthenticated(requester) THEN 401
    ELSE IF id \notin DOMAIN comments THEN 404
    ELSE IF ~IsAuthorOrReadOnly(method, comments[id].author, requester) THEN 403
    ELSE IF ~CommentSerializerValid(method = "PATCH", issue) THEN 400
    ELSE 200

CommentUpdate(requester, method, id, issue) ==
    IF CommentUpdateStatus(requester, method, id, issue) # 200
    THEN Answer("comment_update", requester,
                CommentUpdateStatus(requester, method, id, issue))
    ELSE /\ \E a \in PayloadUsers :
                comments' = [comments EXCEPT
                    ![id].issue = IF issue = NoId THEN @ ELSE issue,
                    ![id].author = UpdatedAuthor(@, a)]
         /\ last' = Response("comment_update", requester, 200)
         /\ UNCHANGED <<projects, nextProject, contributors, nextContributor,
                        issues, nextIssue, nextComment, inflight,
                        pending, accounts, nextAccount>>

\* DELETE /comments/<id>/
CommentDestroyStatus(requester, id) ==
    IF ~IsAuthenticated(requester) THEN 401
    ELSE IF id \notin DOMAIN comments THEN 404
    ELSE IF ~IsAuthorOrReadOnly("DELETE", comments[id].author, requester) THEN 403
    ELSE 204

CommentDestroy(requester, id) ==
    IF CommentDestroyStatus(requester, id) # 204
    THEN Answer("comment_destroy", requester, CommentDestroyStatus(requester, id))
    ELSE /\ comments' = Restrict(comments, DOMAIN comments \ {id})
         /\ last' = Response("comment_destroy", requester, 204)
         /\ UNCHANGED <<projects, nextProject, contributors, nextContributor,
                        issues, nextIssue, nextComment, inflight,
                        pending, accounts, nextAccount>>

\* GET /comments/<id>/
CommentRetrieveStatus(requester, id) ==
    IF ~IsAuthenticated(requester) THEN 401
    ELSE IF id \notin DOMAIN comments THEN 404
    ELSE IF ~IsAuthorOrReadOnly("GET", comments[id].author, requester) THEN 403
    ELSE 200

CommentRetrieve(requester, id) ==
    Answer("comment_retrieve", requester, CommentRetrieveStatus(requester, id))

\* GET /comments/
CommentListStatus(requester) ==
    IF ~IsAuthenticated(requester) THEN 401
    ELSE IF ~IsContributorOrAuthor("GET", "comment",
                [project |-> NoId, issue |-> NoId], requester) THEN 403
    ELSE 200

CommentList(requester) ==
    Answer("comment_list", requester, CommentListStatus(requester))

\* --------------------------------------------------------- UserViewSet
\* user.set_password(raw): the stored value is a one-way hash of raw
make_password(raw) ==
    CASE raw = "pw1" -> "pbkdf2_sha256$h1"
      [] raw = "pw2" -> "pbkdf2_sha256$h2"

\* validate_age accepting 15
validate_age_from_15(value) == value >= 15

\* UserSerializer.validate_age: TRUE when the value is returned, FALSE when
\* ValidationError is raised
validate_age(value) == ~(value <= 15)

\* Another row (the instance being updated left out) holds the value
UsernameTaken(username, instance) ==
    \E a \in DOMAIN accounts \ {instance} : accounts[a].username = username

EmailTaken(email, instance) ==
    \E a \in DOMAIN accounts \ {instance} : accounts[a].email = email

\* UserSerializer.is_valid: username, email, password and age are required
\* unless the update is partial; username and email are unique; validate_age
\* runs on an age that is supplied
UserSerializerValid(partial, instance, data) ==
    /\ partial \/ (/\ data.username # Absent /\ data.email # Absent
                    /\ data.password # Absent /\ data.age # NoAge)
    /\ data.username # Absent => ~UsernameTaken(data.username, instance)
    /\ data.email # Absent => ~EmailTaken(data.email, instance)
    /\ data.age # NoAge => validate_age(data.age)

\* POST /users/ : permission_classes = [AllowAny]
UserCreateStatus(requester, data) ==
    IF ~UserSerializerValid(FALSE, NoId, data) THEN 400 ELSE 201

\* UserSerializer.create: the password is popped and set through
\* set_password, the other fields are stored as validated
UserCreate(requester, data) ==
    IF UserCreateStatus(requester, data) # 201
    THEN Answer("user_create", requester, UserCreateStatus(requester, data))
    ELSE /\ nextAccount <= MaxAccounts
         /\ accounts' = Insert(accounts, nextAccount,
                [username |-> data.username, email |-> data.email,
                 password |-> make_password(data.password), age |-> data.age])
         /\ nextAccount' = nextAccount + 1
         /\ last' = Response("user_create", requester, 201)
         /\ UNCHANGED <<projects, nextProject, contributors, nextContributor,
                        issues, nextIssue, comments, nextComment, inflight,
                        pending>>

\* PUT / PATCH /users/<id>/ : permission_classes = [AllowAny]
UserUpdateStatus(requester, method, id, data) ==
    IF id \notin DOMAIN accounts THEN 404
    ELSE IF ~UserSerializerValid(method = "PATCH", id, data) THEN 400
    ELSE 200

\* The inherited ModelSerializer.update: every validated field, the
\* password among them, is assigned to the instance as it came
UpdatedAccount(id, data) ==
    [accounts[id] EXCEPT
        !.username = IF data.username = Absent THEN @ ELSE data.username,
        !.email = IF data.email = Absent THEN @ ELSE data.email,
        !.password = IF data.password = Absent THEN @ ELSE data.password,
        !.age = IF data.age = NoAge THEN @ ELSE data.age]

UserUpdate(requester, method, id, data) ==
    IF UserUpdateStatus(requester, method, id, data) # 200
    THEN Answer("user_update", requester,
                UserUpdateStatus(requester, method, id, data))
    ELSE /\ accounts' = [accounts EXCEPT ![id] = UpdatedAccount(id, data)]
         /\ last' = Response("user_update", requester, 200)
         /\ UNCHANGED <<projects, nextProject, contributors, nextContributor,
                        issues, nextIssue, comments, nextComment, inflight,
                        pending, nextAccount>>

\* DELETE /users/<id>/ : permission_classes = [AllowAny]
UserDestroyStatus(requester, id) ==
    IF id \notin DOMAIN accounts THEN 404 ELSE 204

UserDestroy(requester, id) ==
    IF UserDestroyStatus(requester, id) # 204
    THEN Answer("user_destroy", requester, UserDestroyStatus(requester, id))
    ELSE /\ accounts' = Restrict(accounts, DOMAIN accounts \ {id})
         /\ last' = Response("user_destroy", requester, 204)
         /\ UNCHANGED <<projects, nextProject, contributors, nextContributor,
                        issues, nextIssue, comments, nextComment, inflight,
                        pending, nextAccount>>

\* GET /users/<id>/
UserRetrieveStatus(requester, id) ==
    IF id \notin DOMAIN accounts THEN 404 ELSE 200

UserRetrieve(requester, id) ==
    Answer("user_retrieve", requester, UserRetrieveStatus(requester, id))

\* GET /users/
UserListStatus(requester) == 200

UserList(requester) == Answer("user_list", requester, UserListStatus(requester))

\* ---------------------------------------------------------------- Next
\* Requests are served one at a time: a handler runs when no response is
\* pending, and its response is sent before the next request is taken.
Ready == last = NoResponse

Respond ==
    /\ last # NoResponse
    /\ last' = NoResponse
    /\ UNCHANGED <<projects, nextProject, contributors, nextContributor,
                   issues, nextIssue, comments, nextComment, inflight,
                   pending, accounts, nextAccount>>

IssuePayloads ==
    [project : PayloadProjects, issue : PayloadIssues, assignee : PayloadUsers]

CommentPayloads == [project : PayloadProjects, issue : PayloadIssues]

ProjectRequests ==
    \/ Ready /\ \E u \in Requesters, t \in Titles : ProjectCreate(u, t)
    \/ Ready /\ \E u \in Requesters, m \in {"PUT", "PATCH"}, p \in ProjectIds,
                   t \in Titles \cup {Absent} : ProjectUpdate(u, m, p, t)
    \/ Ready /\ \E u \in Requesters, p \in ProjectIds : ProjectDestroy(u, p)
    \/ Ready /\ \E u \in Requesters, p \in ProjectIds : ProjectRetrieve(u, p)
    \/ Ready /\ \E u \in Requesters : ProjectList(u)

ContributorRequests ==
    \/ Ready /\ \E r \in Requesters, u \in PayloadUsers, p \in PayloadProjects :
                   ContributorCreate(r, u, p)
    \/ Ready /\ \E r \in Requesters, m \in {"PUT", "PATCH"}, c \in ContributorIds,
                   u \in PayloadUsers, p \in PayloadProjects :
                   ContributorUpdate(r, m, c, u, p)
    \/ Ready /\ \E r \in Requesters, c \in ContributorIds : ContributorDestroy(r, c)

IssueRequests ==
    \/ Ready /\ \E r \in Requesters, d \in IssuePayloads : IssueCreate(r, d)
    \/ Ready /\ \E r \in Requesters, m \in {"PUT", "PATCH"}, i \in IssueIds,
                   p \in PayloadProjects, a \in PayloadUsers : IssueUpdate(r, m, i, p, a)
    \/ Ready /\ \E r \in Requesters, i \in IssueIds : IssueDestroy(r, i)
    \/ Ready /\ \E r \in Requesters, i \in IssueIds : IssueRetrieve(r, i)
    \/ Ready /\ \E r \in Requesters : IssueList(r)

CommentRequests ==
    \/ Ready /\ \E r \in Requesters, d \in CommentPayloads : CommentCreate(r, d)
    \/ Ready /\ \E r \in Requesters, m \in {"PUT", "PATCH"}, c \in CommentIds,
                   i \in PayloadIssues : CommentUpdate(r, m, c, i)
    \/ Ready /\ \E r \in Requesters, c \in CommentIds : CommentDestroy(r, c)
    \/ Ready /\ \E r \in Requesters, c \in CommentIds : CommentRetrieve(r, c)
    \/ Ready /\ \E r \in Requesters : CommentList(r)

UserPayloads ==
    [username : Usernames \cup {Absent}, email : Emails \cup {Absent},
     password : Passwords \cup {Absent}, age : Ages \cup {NoAge}]

UserRequests ==
    \/ Ready /\ \E r \in Requesters, d \in UserPayloads : UserCreate(r, d)
    \/ Ready /\ \E r \in Requesters, m \in {"PUT", "PATCH"}, a \in AccountIds,
                   d \in UserPayloads : UserUpdate(r, m, a, d)
    \/ Ready /\ \E r \in Requesters, a \in AccountIds : UserDestroy(r, a)
    \/ Ready /\ \E r \in Requesters, a \in AccountIds : UserRetrieve(r, a)
    \/ Ready /\ \E r \in Requesters : UserList(r)

\* The project and contributor endpoints
Next ==
    \/ ProjectRequests
    \/ ContributorRequests
    \/ Respond

Spec == Init /\ [][Next]_vars

\* Projects come and go (their other fields play no part in what follows)
ProjectLifecycle ==
    \/ Ready /\ \E u \in Requesters : ProjectCreate(u, "t1")
    \/ Ready /\ \E u \in Requesters, p \in ProjectIds : ProjectDestroy(u, p)

\* The contributor and issue endpoints, over projects that come and go
NextIssues ==
    \/ ProjectLifecycle
    \/ ContributorRequests
    \/ IssueRequests
    \/ Respond

SpecIssues == Init /\ [][NextIssues]_vars

\* Issues come and go on those projects
IssueLifecycle ==
    \/ Ready /\ \E r \in Requesters, d \in IssuePayloads : IssueCreate(r, d)
    \/ Ready /\ \E r \in Requesters, i \in IssueIds : IssueDestroy(r, i)

\* The comment endpoints, over projects and issues that come and go
NextComments ==
    \/ ProjectLifecycle
    \/ IssueLifecycle
    \/ CommentRequests
    \/ Respond

SpecComments == Init /\ [][NextComments]_vars

\* The project and contributor endpoints with perform_create's two writes
\* committed one after the other, other requests being served in between
NextConc ==
    \/ Ready /\ \E u \in Requesters, t \in Titles : ProjectCreateSave(u, t)
    \/ Ready /\ \E req \in inflight : ProjectCreateContributor(req)
    \/ Ready /\ \E u \in Requesters, m \in {"PUT", "PATCH"}, p \in ProjectIds,
                   t \in Titles \cup {Absent} : ProjectUpdate(u, m, p, t)
    \/ Ready /\ \E u \in Requesters, p \in ProjectIds : ProjectDestroy(u, p)
    \/ ContributorRequests
    \/ Respond

SpecConc == Init /\ [][NextConc]_vars

\* Contributor creation by two workers, its checks and its INSERT apart,
\* over projects and contributors that come and go
NextRace ==
    \/ ProjectLifecycle
    \/ Ready /\ \E w \in Workers, r \in Requesters, u \in PayloadUsers,
                   p \in PayloadProjects : ContributorCreateCheck(w, r, u, p)
    \/ Ready /\ \E req \in pending : ContributorCreateSave(req)
    \/ Ready /\ \E r \in Requesters, c \in ContributorIds : ContributorDestroy(r, c)
    \/ Respond

SpecRace == Init /\ [][NextRace]_vars

\* The user endpoints
NextUsers ==
    \/ UserRequests
    \/ Respond

SpecUsers == Init /\ [][NextUsers]_vars

\* The project, issue and comment endpoints; each project has its author's
\* Contributor row and no other
NextResources ==
    \/ ProjectRequests
    \/ IssueRequests
    \/ CommentRequests
    \/ Respond

SpecResources == Init /\ [][NextResources]_vars

\* ================================================================ claims
Methods == {"PUT", "PATCH"}

\* The author's Contributor row of project p
HasAuthorRow(p) == ContributorExists(p, projects[p].author)

IsAuthorRow(c) ==
    projects[contributors[c].project].author = contributors[c].user

Answered(op, status) == last.op = op /\ last.status = status

\* C1: a project update (with a payload the serializer takes) or delete by
\* an authenticated user who is not the project's author is answered 403
\* and leaves every table unchanged, and that user's reads of the project
\* are answered 200.
ProjectWritesOnlyByAuthor ==
    /\ [](Ready => \A u \in Users, p \in DOMAIN projects :
            ProjectRetrieveStatus(u, p) = 200 /\ ProjectListStatus(u) = 200)
    /\ [][last'.op \in {"project_update", "project_destroy"} =>
            \A p \in DOMAIN projects :
                (/\ last'.user \in Users
                 /\ projects[p].author # last'.user
                 /\ \/ ProjectDestroy(last'.user, p)
                    \/ \E m \in Methods, t \in Titles :
                          ProjectUpdate(last'.user, m, p, t))
                => last'.status = 403 /\ UNCHANGED tables]_vars

\* C2: a comment is created only when the requester is the author or a
\* contributor of the project of the issue the comment is attached to,
\* whatever the payload's "project" and "issue" fields are.
CommentCreateOnlyByMembers ==
    [][last'.op = "comment_create" /\ last'.status = 201 =>
        \A d \in CommentPayloads :
            CommentCreate(last'.user, d) =>
                /\ d.issue \in DOMAIN issues
                /\ AuthorOrContributor(issues[d.issue].project, last'.user)]_vars

\* C3: an issue-create request on an existing project P by an authenticated
\* user who is neither P's author nor a contributor of P is answered 403 and
\* creates nothing; by the author or a contributor, with an eligible
\* assignee, it is answered 201; and every issue created on P is created by
\* a requester who is P's author or a contributor of P.
IssueCreateOnlyByMembers ==
    /\ [](Ready => \A r \in Users, d \in IssuePayloads :
            d.project \in DOMAIN projects =>
                IF AuthorOrContributor(d.project, r)
                THEN (d.assignee \in Users /\ AssigneeEligible(d.project, d.assignee))
                        => IssueCreateStatus(r, d) = 201
                ELSE IssueCreateStatus(r, d) = 403)
    /\ [][last'.op = "issue_create" =>
            IF last'.status = 201
            THEN \A d \in IssuePayloads :
                    IssueCreate(last'.user, d) =>
                        /\ AuthorOrContributor(d.project, last'.user)
                        /\ nextIssue \in DOMAIN issues'
                        /\ issues'[nextIssue].project = d.project
            ELSE issues' = issues]_vars

\* C3 witness: an issue was just created by a contributor who is not the
\* project's author.
IssueCreatedByContributor ==
    /\ Answered("issue_create", 201)
    /\ \E i \in DOMAIN issues :
        /\ i = nextIssue - 1
        /\ issues[i].author = last.user
        /\ issues[i].author # projects[issues[i].project].author
        /\ ContributorExists(issues[i].project, issues[i].author)

\* C4: a contributor-create request whose user and project resolve is
\* answered 403 and adds no row when the requester is not the project's
\* author, whether or not the pair exists; by the author, for a new pair,
\* it adds the row.
ContributorCreateForbiddenForNonAuthor ==
    [][last'.op = "contributor_create" /\ last'.user \in Users =>
        \A u \in Users, p \in DOMAIN projects :
            ContributorCreate(last'.user, u, p) =>
                IF projects[p].author # last'.user
                THEN last'.status = 403 /\ contributors' = contributors
                ELSE ~ContributorExists(p, u) =>
                        /\ last'.status = 201
                        /\ nextContributor \in DOMAIN contributors'
                        /\ contributors'[nextContributor] =
                               [user |-> u, project |-> p]]_vars

\* C5: a contributor-delete request by an authenticated user who is not the
\* author of the row's project is answered 403 and the row remains.
ContributorDestroyOnlyByAuthor ==
    [][last'.op = "contributor_destroy" /\ last'.user \in Users =>
        \A c \in DOMAIN contributors :
            (/\ projects[contributors[c].project].author # last'.user
             /\ ContributorDestroy(last'.user, c))
                => last'.status = 403 /\ contributors' = contributors]_vars

\* C6: a contributor-delete request on the row of a project's author is
\* answered 403 to every authenticated requester, the author included, and
\* leaves the Contributor table as it was.
AuthorRowNeverDeleted ==
    [][last'.op = "contributor_destroy" =>
        \A c \in DOMAIN contributors :
            (IsAuthorRow(c) /\ ContributorDestroy(last'.user, c)) =>
                /\ last'.user \in Users => last'.status = 403
                /\ contributors' = contributors]_vars

\* C6 witness: the author's own delete of the author's row was just refused.
AuthorRowDeleteRefused ==
    /\ Answered("contributor_destroy", 403)
    /\ \E c \in DOMAIN contributors : IsAuthorRow(c) /\ contributors[c].user = last.user

\* C7: between requests, every project has a Contributor row whose user is
\* the project's author.
AuthorIsContributor ==
    \A p \in DOMAIN projects : HasAuthorRow(p)

\* C8: right after a project-create request answered 201, the new project's
\* author is the requester and the row (requester, new project) exists.
ProjectCreateAddsAuthor ==
    [][last'.op = "project_create" /\ last'.status = 201 =>
        /\ nextProject \in DOMAIN projects'
        /\ projects'[nextProject].author = last'.user
        /\ \E c \in DOMAIN contributors' :
              contributors'[c] = [user |-> last'.user, project |-> nextProject]]_vars

\* C8 witness: a project was just created.
ProjectJustCreated ==
    /\ Answered("project_create", 201)
    /\ nextProject - 1 \in DOMAIN projects
    /\ projects[nextProject - 1].author = last.user
    /\ HasAuthorRow(nextProject - 1)

\* C9: while a project-create request is between its two writes, no state
\* another request can see holds the project without its author's row.
ProjectCreateAtomic ==
    \A req \in inflight :
        req.project \in DOMAIN projects => ContributorExists(req.project, req.user)

\* C10: after an issue create answered 201 or an issue update answered 200
\* the issue's assignee is its project's author or a contributor of it; a
\* create or update whose resolved project and assignee break this is
\* refused (400 once the requester is let through) and leaves the Issue
\* table as it was.  The first conjunct is the refusal of every violating
\* request, the second the state of every row a request wrote.
AssigneeEligibleAfterWrite ==
    /\ [](Ready =>
            /\ \A r \in Users, d \in IssuePayloads :
                (/\ d.project \in DOMAIN projects
                 /\ d.assignee \in Users
                 /\ ~AssigneeEligible(d.project, d.assignee))
                => /\ IssueCreateStatus(r, d) \in {400, 403}
                   /\ AuthorOrContributor(d.project, r)
                        => IssueCreateStatus(r, d) = 400
            /\ \A r \in Users, m \in Methods, i \in DOMAIN issues,
                  p \in PayloadProjects, a \in PayloadUsers :
                (/\ IssueSerializerValid(m = "PATCH", p, a)
                 /\ ~AssigneeEligible(UpdatedIssue(i, p, a).project,
                                      UpdatedIssue(i, p, a).assignee))
                => /\ IssueUpdateStatus(r, m, i, p, a) \in {400, 403}
                   /\ issues[i].author = r
                        => IssueUpdateStatus(r, m, i, p, a) = 400)
    /\ [][last'.op \in {"issue_create", "issue_update"} =>
            IF last'.status \notin {200, 201} THEN issues' = issues
            ELSE \A i \in DOMAIN issues' :
                    (i \notin DOMAIN issues \/ issues'[i] # issues[i]) =>
                        AssigneeEligible(issues'[i].project,
                                         issues'[i].assignee)]_vars

\* C10 witness: an update just moved an issue to an assignee who is a
\* contributor of the project and not its author.
IssueReassignedToContributor ==
    /\ Answered("issue_update", 200)
    /\ \E i \in DOMAIN issues :
        /\ issues[i].author = last.user
        /\ issues[i].assignee # issues[i].author
        /\ issues[i].assignee # projects[issues[i].project].author
        /\ ContributorExists(issues[i].project, issues[i].assignee)

\* C11: between requests, every issue's assignee is the author of the
\* issue's project or a contributor of that project.
AssigneeAlwaysEligible ==
    \A i \in DOMAIN issues :
        AssigneeEligible(issues[i].project, issues[i].assignee)

\* C12: an issue or comment update or delete by an authenticated user who
\* is not the resource's author is answered 403 whatever the payload, a 403
\* leaves every table unchanged, every issue (comment) row that an issue
\* (comment) update or delete changes or removes belongs to the requester,
\* and retrieve and list by any authenticated user are answered 200.
ResourceWritesOnlyByAuthor ==
    /\ [](Ready => \A r \in Users :
            /\ IssueListStatus(r) = 200 /\ CommentListStatus(r) = 200
            /\ \A i \in DOMAIN issues :
                /\ IssueRetrieveStatus(r, i) = 200
                /\ issues[i].author # r =>
                    /\ IssueDestroyStatus(r, i) = 403
                    /\ \A m \in Methods, p \in PayloadProjects, a \in PayloadUsers :
                          IssueUpdateStatus(r, m, i, p, a) = 403
            /\ \A c \in DOMAIN comments :
                /\ CommentRetrieveStatus(r, c) = 200
                /\ comments[c].author # r =>
                    /\ CommentDestroyStatus(r, c) = 403
                    /\ \A m \in Methods, i \in PayloadIssues :
                          CommentUpdateStatus(r, m, c, i) = 403)
    /\ [][/\ last'.status = 403 => UNCHANGED tables
          /\ last'.op \in {"issue_update", "issue_destroy"} =>
                \A i \in DOMAIN issues :
                    (i \notin DOMAIN issues' \/ issues'[i] # issues[i])
                        => issues[i].author = last'.user
          /\ last'.op \in {"comment_update", "comment_destroy"} =>
                \A c \in DOMAIN comments :
                    (c \notin DOMAIN comments' \/ comments'[c] # comments[c])
                        => comments[c].author = last'.user]_vars

\* C12 witness: a comment update by an authenticated user who did not write
\* the comment was just refused, and that user can read the comment.
CommentUpdateRefused ==
    /\ Answered("comment_update", 403)
    /\ last.user \in Users
    /\ \E c \in DOMAIN comments :
        /\ comments[c].author # last.user
        /\ CommentRetrieveStatus(last.user, c) = 200
        /\ issues[comments[c].issue].author # last.user

\* C13: no two Contributor rows hold the same (user, project) pair; a
\* contributor-create request for a pair that exists is answered 400, by
\* whoever it is made, and a contributor-create answered 400 leaves the
\* Contributor table as it was.
ContributorPairUnique ==
    /\ [](\A c1, c2 \in DOMAIN contributors :
            contributors[c1] = contributors[c2] => c1 = c2)
    /\ [](Ready => \A r \in Users, u \in Users, p \in DOMAIN projects :
            ContributorExists(p, u) => ContributorCreateStatus(r, u, p) = 400)
    /\ [][last'.op = "contributor_create" /\ last'.status = 400 =>
            contributors' = contributors]_vars

\* C13 witness: a contributor-create was just answered 400 to a project's
\* author while every user is already a contributor of every project.
DuplicateContributorRefused ==
    /\ Answered("contributor_create", 400)
    /\ Cardinality(DOMAIN contributors) >= 2
    /\ \E p \in DOMAIN projects : projects[p].author = last.user
    /\ \A p \in DOMAIN projects, u \in Users : ContributorExists(p, u)

\* C14: when a contributor-create request reaches its INSERT for a pair that
\* another request has stored in the meantime, it is answered 400, the
\* answer of the existence check, and the Contributor table keeps the one
\* row.
ContributorRaceAnswered400 ==
    [][\A req \in pending :
        (/\ req.project \in DOMAIN projects
         /\ ContributorExists(req.project, req.user)
         /\ ContributorCreateSave(req))
        => last'.status = 400 /\ contributors' = contributors]_vars

\* C15: no request other than a user creation made without credentials is
\* answered with a success (200, 201, 204), and every such request leaves
\* every table, the User table included, as it was.
UnauthenticatedRefused ==
    [][(last'.user = Anonymous /\ last'.op \notin {"none", "user_create"}) =>
        /\ last'.status \notin {200, 201, 204}
        /\ UNCHANGED <<tables, accounts>>]_vars

\* C16: every stored password is the hash of a password, never a password
\* as it was supplied.
PasswordsStoredHashed ==
    \A a \in DOMAIN accounts :
        /\ accounts[a].password \notin Passwords
        /\ \E raw \in Passwords : accounts[a].password = make_password(raw)

\* C17: a user-create request with an age of 15 or less is answered 400
\* and stores nothing, one with age 16 and otherwise valid fields is
\* answered 201, and after any sequence of user requests every stored user
\* is older than 15.
StoredAgeAbove15 ==
    /\ [](\A a \in DOMAIN accounts : accounts[a].age > 15)
    /\ [](Ready => \A r \in Requesters, d \in UserPayloads :
            /\ (d.age # NoAge /\ d.age <= 15) => UserCreateStatus(r, d) = 400
            /\ (/\ d.age = 16
                /\ d.username # Absent /\ ~UsernameTaken(d.username, NoId)
                /\ d.email # Absent /\ ~EmailTaken(d.email, NoId)
                /\ d.password # Absent) => UserCreateStatus(r, d) = 201)
    /\ [][last'.op \in {"user_create", "user_update"} /\ last'.status = 400 =>
            accounts' = accounts]_vars

\* C17 witness: a user creation was just refused with nothing stored, after
\* a user of age 16 had been created and deleted.
UserCreateRefusedNothingStored ==
    /\ Answered("user_create", 400)
    /\ accounts = << >>
    /\ nextAccount = 2

\* C18: no request changes the project of an issue that stays stored, nor
\* the issue of a comment that stays stored.
ParentNeverChanges ==
    [][/\ \A i \in DOMAIN issues \cap DOMAIN issues' :
            issues'[i].project = issues[i].project
       /\ \A c \in DOMAIN comments \cap DOMAIN comments' :
            comments'[c].issue = comments[c].issue]_vars

\* C19: a project, issue or comment create answered 201 stores the
\* requester as the author, whatever author the payload carries, and no
\* request changes the author of a project, issue or comment that stays
\* stored.
AuthorForcedAndKept ==
    [][/\ (last'.op = "project_create" /\ last'.status = 201) =>
            projects'[nextProject].author = last'.user
       /\ (last'.op = "issue_create" /\ last'.status = 201) =>
            issues'[nextIssue].author = last'.user
       /\ (last'.op = "comment_create" /\ last'.status = 201) =>
            comments'[nextComment].author = last'.user
       /\ \A p \in DOMAIN projects \cap DOMAIN projects' :
            projects'[p].author = projects[p].author
       /\ \A i \in DOMAIN issues \cap DOMAIN issues' :
            issues'[i].author = issues[i].author
       /\ \A c \in DOMAIN comments \cap DOMAIN comments' :
            comments'[c].author = comments[c].author]_vars

\* C19 witness: the one project stored was just updated by a user who is
\* not its author, and the author is still the user who created it.
ProjectUpdatedAuthorKept ==
    /\ Answered("project_update", 200)
    /\ DOMAIN projects = {1}
    /\ nextProject = 2
    /\ projects[1].author # last.user
    /\ ContributorExists(1, projects[1].author)

\* C20: every Contributor and Issue row refers to a stored project and
\* every Comment row to a stored issue; a project delete answered 204
\* removes the project's contributors and issues and the comments of those
\* issues and keeps every other row, and an issue delete answered 204
\* removes the issue's comments and keeps the others.
NoDanglingReferences ==
    /\ [](/\ \A c \in DOMAIN contributors :
                contributors[c].project \in DOMAIN projects
          /\ \A i \in DOMAIN issues : issues[i].project \in DOMAIN projects
          /\ \A c \in DOMAIN comments : comments[c].issue \in DOMAIN issues)
    /\ [][(last'.op = "project_destroy" /\ last'.status = 204) =>
            /\ DOMAIN contributors' = {c \in DOMAIN contributors :
                    contributors[c].project \in DOMAIN projects'}
            /\ DOMAIN issues' = {i \in DOMAIN issues :
                    issues[i].project \in DOMAIN projects'}
            /\ DOMAIN comments' = {c \in DOMAIN comments :
                    issues[comments[c].issue].project \in DOMAIN projects'}]_vars
    /\ [][(last'.op = "issue_destroy" /\ last'.status = 204) =>
            DOMAIN comments' = {c \in DOMAIN comments :
                    comments[c].issue \in DOMAIN issues'}]_vars

\* C20 witness: the one project was just deleted; its contributor, its issue
\* and the comment written on that issue are gone with it.
ProjectDeletedWithAllItOwned ==
    /\ Answered("project_destroy", 204)
    /\ nextProject = 2 /\ nextIssue = 2 /\ nextComment = 2
    /\ projects = << >> /\ contributors = << >>
    /\ issues = << >> /\ comments = << >>

\* C21: whenever a request makes a user a contributor of a project of which
\* that user was not a contributor before, the requester is the project's
\* author (the user who created it included).
ContributorsAddedOnlyByAuthor ==
    [][\A p \in DOMAIN projects', u \in Users :
        (/\ \E c \in DOMAIN contributors' :
                contributors'[c] = [user |-> u, project |-> p]
         /\ ~(p \in DOMAIN projects /\ ContributorExists(p, u)))
        => projects'[p].author = last'.user]_vars
====
